---- MODULE Spec2Model ----
(***************************************************************************)
(* Model of deploy_backend.py: the reconciliation of an execution role, a  *)
(* Lambda function and an HTTP API gateway against a provider registry,    *)
(* and of setup_dynamodb.py: the provisioning of the two DynamoDB tables.  *)
(* Strings are sequences of tokens, so that f"base{suffix}" is the         *)
(* concatenation base \o suffix and 'x' in s is membership of a token.     *)
(***************************************************************************)
EXTENDS Integers, Sequences, FiniteSets, TLC

\* ---------------------------------------------------------------- bounds
MaxRuns == 2
\* provider errors and interruptions in one behaviour
MaxFaults == 2

\* runs of setup_dynamodb.py in one behaviour, and provider errors they meet
MaxTableRuns == 2
MaxTableFaults == 1

\* ---------------------------------------------------------------- inputs
Suffixes == {<<"-dev">>, <<"-gateway", "-dev">>}
\* the default of --region; a behaviour stays in one region
Regions == {"us-east-1"}
ZipContents == {"zipA", "zipB"}

None == <<>>
Account == "123456789012"

\* ---------------------------------------------------------------- names
RoleName(s) == <<"QuestLambdaRole">> \o s
FunctionName(s) == <<"quest-api">> \o s
ApiName(s) == <<"quest-api", "-gateway">> \o s
SessionsTable(s) == <<"quest-sessions">> \o s
TeamsTable(s) == <<"quest-teams">> \o s
EnvVars(s) == [DYNAMODB_TABLE_SESSIONS |-> SessionsTable(s),
               DYNAMODB_TABLE_TEAMS |-> TeamsTable(s)]

TrustPolicy == [Effect |-> "Allow", Principal |-> "lambda.amazonaws.com",
                Action |-> "sts:AssumeRole"]
BasicExecutionPolicy == "AWSLambdaBasicExecutionRole"
DynamoDBPolicy == "AmazonDynamoDBFullAccess"
RouteKey == "ANY /{proxy+}"
DefaultStage == "$default"
Timeout == 15

\* provider-assigned identifiers
RoleArnOf(name) == <<"arn:aws:iam::", Account, ":role/">> \o name
FunctionArnOf(r, name) == <<"arn:aws:lambda:", r, Account, ":function:">> \o name
MkApiId(n) == <<"api", n>>
MkIntegrationId(n) == <<"integ", n>>
MkRouteId(n) == <<"route", n>>

StatementId(api) == <<"apigateway-invoke-">> \o api
SourceArn(r, api) == <<"arn:aws:execute-api:", r, Account>> \o api \o <<"/*/*">>
RouteTarget(integ) == <<"integrations/">> \o integ
\* mutant of Endpoint: the region is left out
EndpointNoRegion(api, r) == <<"https://">> \o api \o <<".execute-api.amazonaws.com">>
Endpoint(api, r) == <<"https://">> \o api \o <<".execute-api.", r, ".amazonaws.com">>

\* 'tok' in s
Contains(s, tok) == \E i \in 1..Len(s) : s[i] = tok

VARIABLES
  roles, functions, apis, integrations, routes, stages,   \* provider registry
  nextApi, nextInteg, nextRoute,                          \* provider id counters
  pc, suffix, region, zip_content,                        \* the run and its inputs
  role_arn, api_id, integration_id, lambda_arn, endpoint, \* locals of main
  role,                                                   \* local of create_lambda_role
  at,                                                     \* where the run stopped
  calls, reads, writes,                                   \* what the run has done
  start, prev, runs, faults,                              \* history
  tables,                                                 \* provider registry: DynamoDB
  tpc, tsuffix, idx, tcalls,                              \* the setup_dynamodb run
  truns, tfaults, overlap                                 \* history of the table runs

registry == <<roles, functions, apis, integrations, routes, stages, nextApi, nextInteg,
              nextRoute>>
inputs == <<suffix, region, zip_content>>
locals == <<role_arn, api_id, integration_id, lambda_arn, endpoint, role>>
history == <<start, prev, runs, faults>>
dynamodb == <<tables, tpc, tsuffix, idx, tcalls, truns, tfaults, overlap>>
vars == <<registry, pc, at, inputs, locals, calls, reads, writes, history, dynamodb>>

\* ---------------------------------------------------------------- probes
RoleOf(name) == {r \in roles : r.RoleName = name}
FunctionOf(r, name) == {f \in functions : f.Region = r /\ f.FunctionName = name}
ApisOf(r) == {a \in apis : a.Region = r}
IntegrationsOf(api) == {i \in integrations : i.ApiId = api}
RoutesOf(api) == {x \in routes : x.ApiId = api}
StagesOf(api) == {x \in stages : x.ApiId = api}
ApiNameOf(api) == (CHOOSE a \in apis : a.ApiId = api).Name

Res(kind, r, name) == [kind |-> kind, region |-> r, name |-> name]

\* the resources of the environment (s, r)
EnvState(s, r) ==
  LET mine == {a \in ApisOf(r) : a.Name = ApiName(s)}
      ids == {a.ApiId : a \in mine} IN
  [role |-> RoleOf(RoleName(s)),
   function |-> FunctionOf(r, FunctionName(s)),
   apis |-> mine,
   integrations |-> {i \in integrations : i.ApiId \in ids},
   routes |-> {x \in routes : x.ApiId \in ids},
   stages |-> {x \in stages : x.ApiId \in ids}]

EmptyEnv == [role |-> {}, function |-> {}, apis |-> {}, integrations |-> {},
             routes |-> {}, stages |-> {}]

\* a provider call may fail with an error that is neither NotFound nor a conflict
Fault == IF faults < MaxFaults THEN {FALSE, TRUE} ELSE {FALSE}

Log(op, res) == calls' = Append(calls, [op |-> op, res |-> res])

Fail(op) ==
  /\ Log(op, "error")
  /\ pc' = "failed"
  /\ at' = pc
  /\ faults' = faults + 1
  /\ UNCHANGED <<registry, inputs, locals, reads, writes, start, prev, runs, dynamodb>>

\* what is kept of a run when the next one starts
Summary(outcome) ==
  [suffix |-> suffix, region |-> region, outcome |-> outcome,
   at |-> at, fresh |-> (start.env = EmptyEnv), nextApi |-> start.nextApi,
   nextInteg |-> start.nextInteg,
   errors |-> (\E i \in DOMAIN calls : calls[i].res = "error"),
   granted |-> (\E i \in DOMAIN calls :
                  calls[i] = [op |-> "add_permission", res |-> "ok"]),
   role_arn |-> role_arn, lambda_arn |-> lambda_arn, api_id |-> api_id,
   integration_id |-> integration_id, endpoint |-> endpoint]

NoRun == [outcome |-> "none"]

Init ==
  /\ roles = {} /\ functions = {} /\ apis = {}
  /\ integrations = {} /\ routes = {} /\ stages = {}
  /\ nextApi = 1 /\ nextInteg = 1 /\ nextRoute = 1
  /\ pc = "idle" /\ at = "idle"
  /\ suffix = None /\ region \in Regions /\ zip_content = "zipA"
  /\ role_arn = None /\ api_id = None /\ integration_id = None
  /\ lambda_arn = None /\ endpoint = None /\ role = None
  /\ calls = <<>> /\ reads = {} /\ writes = {}
  /\ start = [env |-> EmptyEnv, nextApi |-> 1, nextInteg |-> 1]
  /\ prev = NoRun
  /\ runs = 0 /\ faults = 0
  /\ tables = {} /\ tpc = "idle" /\ tsuffix = None /\ idx = 1 /\ tcalls = <<>>
  /\ truns = 0 /\ tfaults = 0 /\ overlap = FALSE

\* ---------------------------------------------------------------- main
\* main(): parse the arguments, build the clients.  The region is the same in
\* every run of a behaviour; the suffix and the packaged code are chosen per run.
Start ==
  /\ pc \in {"idle", "done", "failed", "halted"}
  /\ runs < MaxRuns
  /\ \E s \in Suffixes, z \in ZipContents :
       /\ suffix' = s /\ zip_content' = z
       /\ start' = [env |-> EnvState(s, region), nextApi |-> nextApi,
                    nextInteg |-> nextInteg]
  /\ region' = region
  /\ prev' = IF pc = "idle" THEN prev ELSE Summary(pc)
  /\ pc' = "get_role" /\ at' = "running"
  /\ role_arn' = None /\ api_id' = None /\ integration_id' = None
  /\ lambda_arn' = None /\ endpoint' = None /\ role' = None
  /\ calls' = <<>> /\ reads' = {} /\ writes' = {}
  /\ runs' = runs + 1
  /\ UNCHANGED <<registry, faults, dynamodb>>

\* mutant of RoleMissing: the role is created whatever the probe returned
RoleMissingAlways(arn) == TRUE
\* main: if not role_arn
RoleMissing(arn) == arn = None

\* get_role_arn(iam, role_name), called from main
GetRole ==
  /\ pc = "get_role"
  /\ \E fault \in Fault :
       IF fault THEN Fail("get_role")
       ELSE LET found == RoleOf(RoleName(suffix))
                arn == IF found = {} THEN None ELSE (CHOOSE r \in found : TRUE).Arn IN
            /\ IF found = {}
               THEN /\ Log("get_role", "notfound")
                    /\ reads' = reads
               ELSE /\ Log("get_role", "ok")
                    /\ reads' = reads \cup {Res("role", "global", RoleName(suffix))}
            /\ role_arn' = arn
            /\ pc' = IF RoleMissing(arn) THEN "create_role" ELSE "get_function"
            /\ UNCHANGED <<registry, at, inputs, api_id, integration_id, lambda_arn,
                           endpoint, role, writes, history, dynamodb>>


\* create_lambda_role: iam.create_role inside the try
CreateRole ==
  /\ pc = "create_role"
  /\ \E fault \in Fault :
       IF fault \/ RoleOf(RoleName(suffix)) # {}
       THEN /\ Log("create_role", "error")
            /\ pc' = "reprobe_role"
            /\ faults' = IF fault THEN faults + 1 ELSE faults
            /\ UNCHANGED <<registry, at, inputs, locals, reads, writes,
                           start, prev, runs, dynamodb>>
       ELSE /\ Log("create_role", "ok")
            /\ roles' = roles \cup {[RoleName |-> RoleName(suffix),
                                     Arn |-> RoleArnOf(RoleName(suffix)),
                                     AssumeRolePolicyDocument |-> TrustPolicy,
                                     AttachedPolicies |-> {}]}
            /\ role' = RoleArnOf(RoleName(suffix))
            /\ writes' = writes \cup {Res("role", "global", RoleName(suffix))}
            /\ pc' = "attach_basic"
            /\ UNCHANGED <<functions, apis, integrations, routes, stages, nextApi,
                           nextInteg, nextRoute, at, inputs, role_arn, api_id, integration_id,
                           lambda_arn, endpoint, reads, history, dynamodb>>

\* iam.attach_role_policy(RoleName, PolicyArn), inside the try
AttachPolicy(here, policy, next) ==
  /\ pc = here
  /\ \E fault \in Fault :
       IF fault
       THEN /\ Log("attach_role_policy", "error")
            /\ pc' = "reprobe_role"
            /\ faults' = faults + 1
            /\ UNCHANGED <<registry, at, inputs, locals, reads, writes,
                           start, prev, runs, dynamodb>>
       ELSE /\ Log("attach_role_policy", "ok")
            /\ roles' = {IF r.RoleName = RoleName(suffix)
                         THEN [r EXCEPT !.AttachedPolicies = @ \cup {policy}]
                         ELSE r : r \in roles}
            /\ writes' = writes \cup {Res("role", "global", RoleName(suffix))}
            /\ pc' = next
            /\ UNCHANGED <<functions, apis, integrations, routes, stages, nextApi,
                           nextInteg, nextRoute, at, inputs, locals, reads, history, dynamodb>>

AttachBasic == AttachPolicy("attach_basic", BasicExecutionPolicy, "attach_dynamodb")
AttachDynamoDB == AttachPolicy("attach_dynamodb", DynamoDBPolicy, "sleep")

\* time.sleep(10); return role['Role']['Arn']
Sleep ==
  /\ pc = "sleep"
  /\ Log("sleep", "ok")
  /\ role_arn' = role
  /\ pc' = "get_function"
  /\ UNCHANGED <<registry, at, inputs, api_id, integration_id, lambda_arn, endpoint,
                 role, reads, writes, history, dynamodb>>

\* except Exception: return get_role_arn(iam, role_name)
ReprobeRole ==
  /\ pc = "reprobe_role"
  /\ \E fault \in Fault :
       IF fault THEN Fail("get_role")
       ELSE LET found == RoleOf(RoleName(suffix)) IN
            /\ IF found = {}
               THEN /\ Log("get_role", "notfound")
                    /\ role_arn' = None
                    /\ reads' = reads
               ELSE /\ Log("get_role", "ok")
                    /\ role_arn' = (CHOOSE r \in found : TRUE).Arn
                    /\ reads' = reads \cup {Res("role", "global", RoleName(suffix))}
            /\ pc' = "get_function"
            /\ UNCHANGED <<registry, at, inputs, api_id, integration_id, lambda_arn,
                           endpoint, role, writes, history, dynamodb>>

\* awslambda.get_function(FunctionName=function_name), the probe of the try
GetFunction ==
  /\ pc = "get_function"
  /\ \E fault \in Fault :
       IF fault THEN Fail("get_function")
       ELSE /\ IF FunctionOf(region, FunctionName(suffix)) = {}
               THEN /\ Log("get_function", "notfound")
                    /\ pc' = "create_function"
                    /\ reads' = reads
               ELSE /\ Log("get_function", "ok")
                    /\ pc' = "update_function_code"
                    /\ reads' = reads \cup {Res("function", region, FunctionName(suffix))}
            /\ UNCHANGED <<registry, at, inputs, locals, writes, history, dynamodb>>

\* mutant of UpdateFunction: the update is dropped
UpdateFunctionSkip(f, field, value) == functions

UpdateFunction(f, field, value) ==
  {IF g = f THEN [g EXCEPT ![field] = value] ELSE g : g \in functions}

\* awslambda.update_function_code(FunctionName, ZipFile=zip_content)
UpdateFunctionCode ==
  /\ pc = "update_function_code"
  /\ \E fault \in Fault :
       IF fault THEN Fail("update_function_code")
       ELSE LET found == FunctionOf(region, FunctionName(suffix)) IN
            IF found = {}
            THEN /\ Log("update_function_code", "notfound")
                 /\ pc' = "create_function"
                 /\ UNCHANGED <<registry, at, inputs, locals, reads, writes, history, dynamodb>>
            ELSE /\ Log("update_function_code", "ok")
                 /\ functions' = UpdateFunction(CHOOSE f \in found : TRUE, "Code",
                                                zip_content)
                 /\ writes' = writes \cup {Res("function", region, FunctionName(suffix))}
                 /\ pc' = "update_function_configuration"
                 /\ UNCHANGED <<roles, apis, integrations, routes, stages, nextApi,
                                nextInteg, nextRoute, at, inputs, locals, reads, history, dynamodb>>

\* awslambda.update_function_configuration(FunctionName, Environment)
UpdateFunctionConfiguration ==
  /\ pc = "update_function_configuration"
  /\ \E fault \in Fault :
       IF fault THEN Fail("update_function_configuration")
       ELSE LET found == FunctionOf(region, FunctionName(suffix)) IN
            IF found = {}
            THEN /\ Log("update_function_configuration", "notfound")
                 /\ pc' = "create_function"
                 /\ UNCHANGED <<registry, at, inputs, locals, reads, writes, history, dynamodb>>
            ELSE /\ Log("update_function_configuration", "ok")
                 /\ functions' = UpdateFunction(CHOOSE f \in found : TRUE, "Environment",
                                                EnvVars(suffix))
                 /\ writes' = writes \cup {Res("function", region, FunctionName(suffix))}
                 /\ pc' = "get_apis"
                 /\ UNCHANGED <<roles, apis, integrations, routes, stages, nextApi,
                                nextInteg, nextRoute, at, inputs, locals, reads, history, dynamodb>>

\* except ResourceNotFoundException: awslambda.create_function(...)
\* Role=None is refused by the client's parameter validation; an existing name is
\* refused by the provider.
CreateFunction ==
  /\ pc = "create_function"
  /\ \E fault \in Fault :
       IF fault \/ role_arn = None \/ FunctionOf(region, FunctionName(suffix)) # {}
       THEN /\ Log("create_function", "error")
            /\ pc' = "failed"
            /\ at' = pc
            /\ faults' = IF fault THEN faults + 1 ELSE faults
            /\ UNCHANGED <<registry, inputs, locals, reads, writes, start, prev, runs, dynamodb>>
       ELSE /\ Log("create_function", "ok")
            /\ functions' = functions \cup
                 {[Region |-> region,
                   FunctionName |-> FunctionName(suffix),
                   FunctionArn |-> FunctionArnOf(region, FunctionName(suffix)),
                   Runtime |-> "python3.9",
                   Role |-> role_arn,
                   Handler |-> "lambda_function.lambda_handler",
                   Code |-> zip_content,
                   Environment |-> EnvVars(suffix),
                   Timeout |-> Timeout,
                   Policy |-> {}]}
            /\ writes' = writes \cup {Res("function", region, FunctionName(suffix))}
            /\ pc' = "get_apis"
            /\ UNCHANGED <<roles, apis, integrations, routes, stages, nextApi, nextInteg,
                           nextRoute, at, inputs, locals, reads, history, dynamodb>>

\* ---------------------------------------------------------------- gateway
\* mutant of FindApi: containment of 'quest-api' in place of equality of names
FindApiContains(items, name) ==
  LET hit == {a \in items : Contains(a.Name, "quest-api")} IN
  IF hit = {} THEN None ELSE (CHOOSE a \in hit : TRUE).ApiId

\* mutant of FindApi: the search compares the wrong field
FindApiByIdField(items, name) ==
  LET hit == {a \in items : a.ApiId = name} IN
  IF hit = {} THEN None ELSE (CHOOSE a \in hit : TRUE).ApiId

\* next((api['ApiId'] for api in apis if api['Name'] == api_name), None)
FindApi(items, name) ==
  LET hit == {a \in items : a.Name = name} IN
  IF hit = {} THEN None ELSE (CHOOSE a \in hit : TRUE).ApiId

\* mutant of FindIntegration: equality with 'quest-api' in place of containment
FindIntegrationExact(items) ==
  LET hit == {i \in items : i.IntegrationUri = <<"quest-api">>} IN
  IF hit = {} THEN None ELSE (CHOOSE i \in hit : TRUE).IntegrationId

\* next((i['IntegrationId'] for i in integrations
\*       if 'quest-api' in i.get('IntegrationUri', '')), None)
FindIntegration(items) ==
  LET hit == {i \in items : Contains(i.IntegrationUri, "quest-api")} IN
  IF hit = {} THEN None ELSE (CHOOSE i \in hit : TRUE).IntegrationId

\* mutant of RouteExists: all() in place of any(), true of no routes
RouteExistsAll(items) == items # {} /\ \A x \in items : x.RouteKey # RouteKey

\* any(r['RouteKey'] == route_key for r in routes)
RouteExists(items) == \E x \in items : x.RouteKey = RouteKey

\* next((s for s in stages if s['StageName'] == '$default'), None)
FindDefaultStage(items) == {x \in items : x.StageName = DefaultStage}

\* apigateway.get_apis()['Items'] and the search by name
GetApis ==
  /\ pc = "get_apis"
  /\ \E fault \in Fault :
       IF fault THEN Fail("get_apis")
       ELSE /\ Log("get_apis", "ok")
            /\ reads' = reads \cup {Res("api", region, a.Name) : a \in ApisOf(region)}
            /\ api_id' = FindApi(ApisOf(region), ApiName(suffix))
            /\ pc' = IF api_id' = None THEN "create_api" ELSE "get_integrations"
            /\ UNCHANGED <<registry, at, inputs, role_arn, integration_id, lambda_arn,
                           endpoint, role, writes, history, dynamodb>>

\* apigateway.create_api(Name=api_name, ProtocolType='HTTP', CorsConfiguration=...)
CreateApi ==
  /\ pc = "create_api"
  /\ \E fault \in Fault :
       IF fault THEN Fail("create_api")
       ELSE /\ Log("create_api", "ok")
            /\ apis' = apis \cup {[Region |-> region,
                                   ApiId |-> MkApiId(nextApi),
                                   Name |-> ApiName(suffix),
                                   ProtocolType |-> "HTTP",
                                   AllowOrigins |-> {"*"},
                                   AllowMethods |-> {"GET", "POST", "OPTIONS"},
                                   AllowHeaders |-> {"content-type"}]}
            /\ nextApi' = nextApi + 1
            /\ api_id' = MkApiId(nextApi)
            /\ writes' = writes \cup {Res("api", region, ApiName(suffix))}
            /\ pc' = "get_integrations"
            /\ UNCHANGED <<roles, functions, integrations, routes, stages, nextInteg, nextRoute,
                           at, inputs, role_arn, integration_id, lambda_arn, endpoint,
                           role, reads, history, dynamodb>>

\* apigateway.get_integrations(ApiId=api_id)['Items'] and the search by target
GetIntegrations ==
  /\ pc = "get_integrations"
  /\ \E fault \in Fault :
       IF fault THEN Fail("get_integrations")
       ELSE /\ Log("get_integrations", "ok")
            /\ reads' = reads \cup {Res("integration", region, ApiNameOf(i.ApiId)) :
                                      i \in IntegrationsOf(api_id)}
            /\ integration_id' = FindIntegration(IntegrationsOf(api_id))
            /\ pc' = "get_function_arn"
            /\ UNCHANGED <<registry, at, inputs, role_arn, api_id, lambda_arn, endpoint,
                           role, writes, history, dynamodb>>

\* awslambda.get_function(FunctionName=function_name)['Configuration']['FunctionArn']
GetFunctionArn ==
  /\ pc = "get_function_arn"
  /\ \E fault \in Fault :
       LET found == FunctionOf(region, FunctionName(suffix)) IN
       IF fault THEN Fail("get_function")
       ELSE IF found = {}
       THEN /\ Log("get_function", "notfound")
            /\ pc' = "failed"
            /\ at' = pc
            /\ UNCHANGED <<registry, inputs, locals, reads, writes, history, dynamodb>>
       ELSE /\ Log("get_function", "ok")
            /\ lambda_arn' = (CHOOSE f \in found : TRUE).FunctionArn
            /\ reads' = reads \cup {Res("function", region, FunctionName(suffix))}
            /\ pc' = IF integration_id = None THEN "create_integration" ELSE "get_routes"
            /\ UNCHANGED <<registry, at, inputs, role_arn, api_id, integration_id,
                           endpoint, role, writes, history, dynamodb>>

\* apigateway.create_integration(ApiId, 'AWS_PROXY', IntegrationUri=lambda_arn, '2.0')
CreateIntegration ==
  /\ pc = "create_integration"
  /\ \E fault \in Fault :
       IF fault THEN Fail("create_integration")
       ELSE /\ Log("create_integration", "ok")
            /\ integrations' = integrations \cup
                 {[ApiId |-> api_id,
                   IntegrationId |-> MkIntegrationId(nextInteg),
                   IntegrationType |-> "AWS_PROXY",
                   IntegrationUri |-> lambda_arn,
                   PayloadFormatVersion |-> "2.0"]}
            /\ nextInteg' = nextInteg + 1
            /\ integration_id' = MkIntegrationId(nextInteg)
            /\ writes' = writes \cup {Res("integration", region, ApiNameOf(api_id))}
            /\ pc' = "get_routes"
            /\ UNCHANGED <<roles, functions, apis, routes, stages, nextApi, nextRoute, at, inputs,
                           role_arn, api_id, lambda_arn, endpoint, role, reads, history, dynamodb>>

\* apigateway.get_routes(ApiId=api_id)['Items'] and the search by route key
GetRoutes ==
  /\ pc = "get_routes"
  /\ \E fault \in Fault :
       IF fault THEN Fail("get_routes")
       ELSE /\ Log("get_routes", "ok")
            /\ reads' = reads \cup {Res("route", region, ApiNameOf(x.ApiId)) :
                                      x \in RoutesOf(api_id)}
            /\ pc' = IF RouteExists(RoutesOf(api_id)) THEN "get_stages" ELSE "create_route"
            /\ UNCHANGED <<registry, at, inputs, locals, writes, history, dynamodb>>

\* apigateway.create_route(ApiId, RouteKey, Target=f"integrations/{integration_id}")
CreateRoute ==
  /\ pc = "create_route"
  /\ \E fault \in Fault :
       IF fault THEN Fail("create_route")
       ELSE /\ Log("create_route", "ok")
            /\ routes' = routes \cup {[ApiId |-> api_id, RouteId |-> MkRouteId(nextRoute),
                                       RouteKey |-> RouteKey,
                                       Target |-> RouteTarget(integration_id)]}
            /\ nextRoute' = nextRoute + 1
            /\ writes' = writes \cup {Res("route", region, ApiNameOf(api_id))}
            /\ pc' = "get_stages"
            /\ UNCHANGED <<roles, functions, apis, integrations, stages, nextApi,
                           nextInteg, at, inputs, locals, reads, history, dynamodb>>

\* apigateway.get_stages(ApiId=api_id)['Items'] and the search for $default
GetStages ==
  /\ pc = "get_stages"
  /\ \E fault \in Fault :
       IF fault THEN Fail("get_stages")
       ELSE /\ Log("get_stages", "ok")
            /\ reads' = reads \cup {Res("stage", region, ApiNameOf(x.ApiId)) :
                                      x \in StagesOf(api_id)}
            /\ pc' = IF FindDefaultStage(StagesOf(api_id)) = {}
                     THEN "create_stage" ELSE "get_caller_identity"
            /\ UNCHANGED <<registry, at, inputs, locals, writes, history, dynamodb>>

\* apigateway.create_stage(ApiId, StageName='$default', AutoDeploy=True)
CreateStage ==
  /\ pc = "create_stage"
  /\ \E fault \in Fault :
       IF fault THEN Fail("create_stage")
       ELSE IF \E x \in StagesOf(api_id) : x.StageName = DefaultStage
       THEN /\ Log("create_stage", "conflict")
            /\ pc' = "failed"
            /\ at' = pc
            /\ UNCHANGED <<registry, inputs, locals, reads, writes, history, dynamodb>>
       ELSE /\ Log("create_stage", "ok")
            /\ stages' = stages \cup {[ApiId |-> api_id, StageName |-> DefaultStage,
                                       AutoDeploy |-> TRUE]}
            /\ writes' = writes \cup {Res("stage", region, ApiNameOf(api_id))}
            /\ pc' = "get_caller_identity"
            /\ UNCHANGED <<roles, functions, apis, integrations, routes, nextApi,
                           nextInteg, nextRoute, at, inputs, locals, reads, history, dynamodb>>

\* boto3.client('sts').get_caller_identity()['Account'], an argument of add_permission
GetCallerIdentity ==
  /\ pc = "get_caller_identity"
  /\ \E fault \in Fault :
       IF fault THEN Fail("get_caller_identity")
       ELSE /\ Log("get_caller_identity", "ok")
            /\ pc' = "add_permission"
            /\ UNCHANGED <<registry, at, inputs, locals, reads, writes, history, dynamodb>>

\* mutant of OnResourceConflict: the conflict is not caught
OnResourceConflictRaise == "failed"

\* except awslambda.exceptions.ResourceConflictException: print; main goes on
OnResourceConflict == "report"

\* awslambda.add_permission(...) inside the try
AddPermission ==
  /\ pc = "add_permission"
  /\ \E fault \in Fault :
       LET found == FunctionOf(region, FunctionName(suffix))
           sid == StatementId(api_id) IN
       IF fault THEN Fail("add_permission")
       ELSE IF found = {}
       THEN /\ Log("add_permission", "notfound")
            /\ pc' = "failed"
            /\ at' = pc
            /\ UNCHANGED <<registry, inputs, locals, reads, writes, history, dynamodb>>
       ELSE LET f == CHOOSE g \in found : TRUE IN
            IF \E st \in f.Policy : st.StatementId = sid
            THEN /\ Log("add_permission", "conflict")
                 /\ pc' = OnResourceConflict
                 /\ UNCHANGED <<registry, at, inputs, locals, reads, writes, history, dynamodb>>
            ELSE /\ Log("add_permission", "ok")
                 /\ functions' = UpdateFunction(f, "Policy", f.Policy \cup
                      {[StatementId |-> sid,
                        Action |-> "lambda:InvokeFunction",
                        Principal |-> "apigateway.amazonaws.com",
                        SourceArn |-> SourceArn(region, api_id)]})
                 /\ writes' = writes \cup {Res("function", region, FunctionName(suffix))}
                 /\ pc' = "report"
                 /\ UNCHANGED <<roles, apis, integrations, routes, stages, nextApi,
                                nextInteg, nextRoute, at, inputs, locals, reads, history, dynamodb>>

\* endpoint = f"https://{api_id}.execute-api.{region}.amazonaws.com"; print
Report ==
  /\ pc = "report"
  /\ endpoint' = Endpoint(api_id, region)
  /\ pc' = "done"
  /\ at' = "done"
  /\ UNCHANGED <<registry, inputs, role_arn, api_id, integration_id, lambda_arn, role,
                 calls, reads, writes, history, dynamodb>>

\* the process is stopped between two provider calls
Running == {"get_role", "create_role", "attach_basic", "attach_dynamodb", "sleep",
            "reprobe_role", "get_function", "update_function_code",
            "update_function_configuration", "create_function", "get_apis",
            "create_api", "get_integrations", "get_function_arn", "create_integration",
            "get_routes", "create_route", "get_stages", "create_stage",
            "get_caller_identity", "add_permission", "report"}

Interrupt ==
  /\ pc \in Running
  /\ faults < MaxFaults
  /\ pc' = "halted"
  /\ at' = pc
  /\ faults' = faults + 1
  /\ UNCHANGED <<registry, inputs, locals, calls, reads, writes, start, prev, runs, dynamodb>>

Next ==
  \/ Start \/ GetRole \/ CreateRole \/ AttachBasic \/ AttachDynamoDB \/ Sleep
  \/ ReprobeRole \/ GetFunction \/ UpdateFunctionCode \/ UpdateFunctionConfiguration
  \/ CreateFunction \/ GetApis \/ CreateApi \/ GetIntegrations \/ GetFunctionArn
  \/ CreateIntegration \/ GetRoutes \/ CreateRoute \/ GetStages \/ CreateStage
  \/ GetCallerIdentity \/ AddPermission \/ Report \/ Interrupt

Spec == Init /\ [][Next]_vars

\* ---------------------------------------------------------------- setup_dynamodb.py
\* mutant of sessions_table: the name without the suffix
sessions_table_bare(s) == <<"quest-sessions">>
\* main(): the two table names of the environment
sessions_table(s) == <<"quest-sessions">> \o s
teams_table(s) == <<"quest-teams">> \o s

\* the arguments of the two create_table calls of main, in order
TableArgs(s) ==
  <<[table_name |-> sessions_table(s), key_schema |-> "sessionId"],
    [table_name |-> teams_table(s), key_schema |-> "teamCode"]>>
table_name == TableArgs(tsuffix)[idx].table_name
key_schema == TableArgs(tsuffix)[idx].key_schema

TableOf(name) == {t \in tables : t.TableName = name}
TimeToLiveSpecification == [Enabled |-> TRUE, AttributeName |-> "expiresAt"]

\* mutant of HasTTL: the test on 'sessions' alone
HasTTLSessionsOnly(name) == Contains(name, "quest-sessions")
\* 'sessions' in table_name or 'teams' in table_name
HasTTL(name) == Contains(name, "quest-sessions") \/ Contains(name, "quest-teams")

\* mutant of OnException: ResourceInUseException handled as any other error
OnExceptionSurface(e, name) == "return"
\* the except clause of create_table: where the function goes on an exception e
OnException(e, name) ==
  IF e = "ResourceInUseException" /\ HasTTL(name)
  THEN "verify_time_to_live" ELSE "return"

\* the errors a DynamoDB call may raise, besides those the registry determines
TableFault(kinds) == IF tfaults < MaxTableFaults THEN {"none"} \cup kinds ELSE {"none"}

TableLog(op, res) ==
  tcalls' = Append(tcalls, [op |-> op, table |-> table_name, res |-> res])

deploy == <<registry, pc, at, inputs, locals, calls, reads, writes, history>>

\* a step of the table run taken while a backend run is under way
Overlaps == overlap' = (overlap \/ pc \in Running)

\* create_table returns to main, which goes on to the next table or ends
Return ==
  IF idx = 1 THEN idx' = 2 /\ tpc' = "create_table"
  ELSE idx' = idx /\ tpc' = "done"

Except(e) ==
  IF OnException(e, table_name) = "return" THEN Return
  ELSE idx' = idx /\ tpc' = OnException(e, table_name)

\* update_time_to_live as the provider does it: refused when already enabled
EnableTTL ==
  tables' = {IF t.TableName = table_name
             THEN [t EXCEPT !.TimeToLive = TimeToLiveSpecification]
             ELSE t : t \in tables}

TTLEnabled(name) == \E t \in TableOf(name) : t.TimeToLive # None

\* main(): parse the arguments, build the resource
TableStart ==
  /\ tpc \in {"idle", "done"}
  /\ truns < MaxTableRuns
  /\ \E s \in Suffixes : tsuffix' = s
  /\ idx' = 1 /\ tpc' = "create_table"
  /\ tcalls' = <<>>
  /\ truns' = truns + 1
  /\ Overlaps
  /\ UNCHANGED <<tables, tfaults, deploy>>

\* dynamodb.create_table(...)
CreateTable ==
  /\ tpc = "create_table"
  /\ \E e \in TableFault({"error"}) :
       IF TableOf(table_name) # {}
       THEN /\ TableLog("create_table", "conflict")
            /\ Except("ResourceInUseException")
            /\ UNCHANGED <<tables, tfaults>>
       ELSE IF e = "error"
       THEN /\ TableLog("create_table", "error")
            /\ Except(e)
            /\ tfaults' = tfaults + 1
            /\ UNCHANGED tables
       ELSE /\ TableLog("create_table", "ok")
            /\ tables' = tables \cup {[TableName |-> table_name,
                                       KeySchema |-> key_schema,
                                       BillingMode |-> "PAY_PER_REQUEST",
                                       TimeToLive |-> None]}
            /\ tpc' = "wait_until_exists" /\ idx' = idx
            /\ UNCHANGED tfaults
  /\ Overlaps
  /\ UNCHANGED <<tsuffix, truns, deploy>>

\* table.wait_until_exists()
WaitUntilExists ==
  /\ tpc = "wait_until_exists"
  /\ \E e \in TableFault({"error"}) :
       IF e = "error"
       THEN /\ TableLog("wait_until_exists", "error")
            /\ Except(e)
            /\ tfaults' = tfaults + 1
       ELSE /\ TableLog("wait_until_exists", "ok")
            /\ tpc' = "sleep" /\ idx' = idx
            /\ UNCHANGED tfaults
  /\ Overlaps
  /\ UNCHANGED <<tables, tsuffix, truns, deploy>>

\* time.sleep(5), then the test on the table name
TableSleep ==
  /\ tpc = "sleep"
  /\ TableLog("sleep", "ok")
  /\ IF HasTTL(table_name)
     THEN tpc' = "update_time_to_live" /\ idx' = idx
     ELSE Return
  /\ Overlaps
  /\ UNCHANGED <<tables, tsuffix, truns, tfaults, deploy>>

\* dynamodb_client.update_time_to_live(...) on the table just created
UpdateTimeToLive ==
  /\ tpc = "update_time_to_live"
  /\ \E e \in TableFault({"ResourceInUseException", "error"}) :
       IF e = "none" /\ ~TTLEnabled(table_name)
       THEN /\ TableLog("update_time_to_live", "ok")
            /\ EnableTTL
            /\ Return
            /\ UNCHANGED tfaults
       ELSE /\ TableLog("update_time_to_live",
                        IF e = "ResourceInUseException" THEN "conflict" ELSE "error")
            /\ Except(e)
            /\ tfaults' = IF e = "none" THEN tfaults ELSE tfaults + 1
            /\ UNCHANGED tables
  /\ Overlaps
  /\ UNCHANGED <<tsuffix, truns, deploy>>

\* the inner try of the except clause: update_time_to_live on the existing table
VerifyTimeToLive ==
  /\ tpc = "verify_time_to_live"
  /\ \E e \in TableFault({"error"}) :
       IF e = "none" /\ ~TTLEnabled(table_name)
       THEN /\ TableLog("update_time_to_live", "ok")
            /\ EnableTTL
            /\ UNCHANGED tfaults
       ELSE /\ TableLog("update_time_to_live", "error")
            /\ tfaults' = IF e = "none" THEN tfaults ELSE tfaults + 1
            /\ UNCHANGED tables
  /\ Return
  /\ Overlaps
  /\ UNCHANGED <<tsuffix, truns, deploy>>

\* one backend run from an empty account that meets no provider error, while
\* table runs come before it, during it, after it, or not at all
TableInit ==
  /\ roles = {} /\ functions = {} /\ apis = {}
  /\ integrations = {} /\ routes = {} /\ stages = {}
  /\ nextApi = 1 /\ nextInteg = 1 /\ nextRoute = 1
  /\ pc = "idle" /\ at = "idle"
  /\ suffix = None /\ region \in Regions /\ zip_content = "zipA"
  /\ role_arn = None /\ api_id = None /\ integration_id = None
  /\ lambda_arn = None /\ endpoint = None /\ role = None
  /\ calls = <<>> /\ reads = {} /\ writes = {}
  /\ start = [env |-> EmptyEnv, nextApi |-> 1, nextInteg |-> 1]
  /\ prev = NoRun
  /\ runs = 0 /\ faults = MaxFaults
  /\ tables = {} /\ tpc = "idle" /\ tsuffix = None /\ idx = 1 /\ tcalls = <<>>
  /\ truns = 0 /\ tfaults = 0 /\ overlap = FALSE

StartOnce == runs = 0 /\ Start

TableNext ==
  \/ TableStart \/ CreateTable \/ WaitUntilExists \/ TableSleep
  \/ UpdateTimeToLive \/ VerifyTimeToLive
  \/ StartOnce \/ GetRole \/ CreateRole \/ AttachBasic \/ AttachDynamoDB \/ Sleep
  \/ GetFunction \/ CreateFunction \/ GetApis \/ CreateApi \/ GetIntegrations
  \/ GetFunctionArn \/ CreateIntegration \/ GetRoutes \/ CreateRoute \/ GetStages
  \/ CreateStage \/ GetCallerIdentity \/ AddPermission \/ Report

TableSpec == TableInit /\ [][TableNext]_vars

\* ---------------------------------------------------------------- properties
CreateOps == {"create_role", "create_function", "create_api", "create_integration",
              "create_route", "create_stage"}
Made(op) == \E i \in DOMAIN calls : calls[i].op = op
MadeWith(op, res) == \E i \in DOMAIN calls : calls[i].op = op /\ calls[i].res = res
Count(op) == Cardinality({i \in DOMAIN calls : calls[i].op = op})
InRun == pc \notin {"idle"}
SameEnvAsPrev == prev.outcome # "none" /\ prev.suffix = suffix /\ prev.region = region

\* the state a complete run leaves for (s, r), written out from the calls of main
DesiredEnv(s, r, z, n, m) ==
  LET role_name == <<"QuestLambdaRole">> \o s
      function_name == <<"quest-api">> \o s
      arn == <<"arn:aws:lambda:", r, Account, ":function:">> \o function_name IN
  [role |-> {[RoleName |-> role_name,
              Arn |-> <<"arn:aws:iam::", Account, ":role/">> \o role_name,
              AssumeRolePolicyDocument |-> TrustPolicy,
              AttachedPolicies |-> {"AWSLambdaBasicExecutionRole",
                                    "AmazonDynamoDBFullAccess"}]},
   function |-> {[Region |-> r, FunctionName |-> function_name, FunctionArn |-> arn,
                  Runtime |-> "python3.9",
                  Role |-> <<"arn:aws:iam::", Account, ":role/">> \o role_name,
                  Handler |-> "lambda_function.lambda_handler",
                  Code |-> z,
                  Environment |-> [DYNAMODB_TABLE_SESSIONS |-> <<"quest-sessions">> \o s,
                                   DYNAMODB_TABLE_TEAMS |-> <<"quest-teams">> \o s],
                  Timeout |-> 15,
                  Policy |-> {[StatementId |-> <<"apigateway-invoke-", "api", n>>,
                               Action |-> "lambda:InvokeFunction",
                               Principal |-> "apigateway.amazonaws.com",
                               SourceArn |-> <<"arn:aws:execute-api:", r, Account,
                                               "api", n, "/*/*">>]}]},
   apis |-> {[Region |-> r, ApiId |-> <<"api", n>>,
              Name |-> <<"quest-api", "-gateway">> \o s, ProtocolType |-> "HTTP",
              AllowOrigins |-> {"*"}, AllowMethods |-> {"GET", "POST", "OPTIONS"},
              AllowHeaders |-> {"content-type"}]},
   integrations |-> {[ApiId |-> <<"api", n>>, IntegrationId |-> <<"integ", m>>,
                      IntegrationType |-> "AWS_PROXY", IntegrationUri |-> arn,
                      PayloadFormatVersion |-> "2.0"]},
   routes |-> {[ApiId |-> <<"api", n>>, RouteKey |-> "ANY /{proxy+}",
                Target |-> <<"integrations/", "integ", m>>]},
   stages |-> {[ApiId |-> <<"api", n>>, StageName |-> "$default", AutoDeploy |-> TRUE]}]

\* the environment without the provider's route identifiers
Shape(env) ==
  [env EXCEPT !.routes = {[ApiId |-> x.ApiId, RouteKey |-> x.RouteKey,
                           Target |-> x.Target] : x \in env.routes}]

\* C1: a run that follows a complete run of the same region and suffix, which began
\* with that environment empty, makes no create call, only probes, the two updates
\* and an absorbed permission conflict, and ends with the identifiers and the
\* endpoint of the first run.
C1_Idempotent ==
  (InRun /\ SameEnvAsPrev /\ prev.outcome = "done" /\ prev.fresh) =>
    /\ \A i \in DOMAIN calls : calls[i].op \notin CreateOps
    /\ ~MadeWith("add_permission", "ok")
    /\ pc = "done" =>
         /\ role_arn = prev.role_arn
         /\ lambda_arn = prev.lambda_arn
         /\ api_id = prev.api_id
         /\ integration_id = prev.integration_id
         /\ endpoint = prev.endpoint
         /\ MadeWith("update_function_code", "ok")
         /\ MadeWith("update_function_configuration", "ok")
         /\ MadeWith("add_permission", "conflict")

C1_Witness ==
  /\ pc = "done" /\ SameEnvAsPrev /\ prev.outcome = "done" /\ prev.fresh
  /\ endpoint # None

\* the pc a run is at when it has finished step N of role, deployable, entry point,
\* integration, route, stage, permission
Boundary == <<"get_function", "get_apis", "get_integrations", "get_routes",
              "get_stages", "get_caller_identity", "report">>
\* the call that creates what step N is about
StepOp == <<"create_role", "create_function", "create_api", "create_integration",
            "create_route", "create_stage", "add_permission">>
ResumedAfter(n) ==
  InRun /\ SameEnvAsPrev /\ prev.outcome = "halted" /\ prev.fresh /\ prev.at = Boundary[n]

\* what the claim says of a run resumed after step n
Resumed(n) ==
  /\ \A k \in 1..n : ~MadeWith(StepOp[k], "ok") /\ (k < 7 => ~Made(StepOp[k]))
  /\ pc = "done" =>
       /\ \A k \in (n + 1)..7 : MadeWith(StepOp[k], "ok")
       /\ Shape(EnvState(suffix, region)) =
            DesiredEnv(suffix, region, zip_content, prev.nextApi, prev.nextInteg)
       /\ endpoint = <<"https://", "api", prev.nextApi, ".execute-api.", region,
                       ".amazonaws.com">>

\* C2: a run that follows a run halted after step N (same suffix, environment empty
\* before the halted run) makes no create call for steps 1..N, makes the create call
\* of every later step, and ends in the state of an uninterrupted run.
C2_Resumable == \A n \in 1..7 : ResumedAfter(n) => Resumed(n)

\* the same, for halted runs in which no provider call had failed
ErrorFree(run) == ~run.errors
ResumableWithoutErrors ==
  \A n \in 1..7 : (ResumedAfter(n) /\ ErrorFree(prev)) => Resumed(n)
ResumedWitness ==
  pc = "done" /\ ResumedAfter(3) /\ ErrorFree(prev) /\ MadeWith("create_route", "ok")

\* C3: the registry never holds two roles, functions or entry points of one name, nor
\* two integrations, catch-all routes or $default stages on one entry point.
C3_NoDuplicates ==
  /\ \A s \in Suffixes :
       /\ Cardinality(RoleOf(RoleName(s))) <= 1
       /\ Cardinality(FunctionOf(region, FunctionName(s))) <= 1
       /\ Cardinality({a \in apis : a.Name = ApiName(s)}) <= 1
  /\ \A a \in apis :
       /\ Cardinality(IntegrationsOf(a.ApiId)) <= 1
       /\ Cardinality({x \in RoutesOf(a.ApiId) : x.RouteKey = "ANY /{proxy+}"}) <= 1
       /\ Cardinality({x \in StagesOf(a.ApiId) : x.StageName = "$default"}) <= 1

C3_Witness ==
  /\ pc = "done" /\ SameEnvAsPrev /\ prev.outcome \in {"halted", "failed"}
  /\ prev.at = "create_route"
  /\ Cardinality(EnvState(suffix, region).routes) = 1
  /\ Cardinality(EnvState(suffix, region).integrations) = 1

\* the name a resource of a kind has in the environment of suffix s; integrations,
\* routes and stages are named by their entry point
NameOf(kind, s) ==
  CASE kind = "role" -> RoleName(s)
    [] kind = "function" -> FunctionName(s)
    [] OTHER -> ApiName(s)
Names(s) == {RoleName(s), FunctionName(s), ApiName(s), SessionsTable(s), TeamsTable(s)}
BelongsTo(x, s) == x.name = NameOf(x.kind, s)

\* C4, as claimed: the names of two suffixes are disjoint sets and a run reads and
\* mutates no resource of another suffix.
C4_Isolation ==
  /\ \A s1, s2 \in Suffixes : s1 # s2 => Names(s1) \cap Names(s2) = {}
  /\ InRun => \A x \in reads \cup writes :
                \A s \in Suffixes \ {suffix} : ~BelongsTo(x, s)

\* C4, amended: two suffixes give different names to the resources of each kind
\* (names of different kinds may coincide), a run mutates only resources of its own
\* suffix, and what it reads of another suffix is only the entries of the unfiltered
\* entry-point listing.
C4_IsolationPerKind ==
  /\ \A s1, s2 \in Suffixes : s1 # s2 =>
       /\ RoleName(s1) # RoleName(s2)
       /\ FunctionName(s1) # FunctionName(s2)
       /\ ApiName(s1) # ApiName(s2)
       /\ SessionsTable(s1) # SessionsTable(s2)
       /\ TeamsTable(s1) # TeamsTable(s2)
  /\ InRun =>
       /\ \A x \in writes : BelongsTo(x, suffix)
       /\ \A x \in reads : BelongsTo(x, suffix) \/ x.kind = "api"

C4_Witness ==
  /\ pc = "done"
  /\ \E x \in reads : x.kind = "api" /\ ~BelongsTo(x, suffix)
  /\ \E x \in writes : x.kind = "integration"
  /\ \E s \in Suffixes \ {suffix} : EnvState(s, region).integrations # {}

DeployableOps == {"get_function", "update_function_code",
                  "update_function_configuration", "create_function"}

\* C5: no call of the deployable stage is made without a resolved role identifier,
\* and no call of the integration step before the deployable exists and, for the
\* create, before its identifier is known.
C5_DependencyOrder ==
  /\ (\E i \in DOMAIN calls : calls[i].op \in DeployableOps) => role_arn # None
  /\ (Made("get_integrations") \/ Made("create_integration")) =>
       FunctionOf(region, FunctionName(suffix)) # {}
  /\ Made("create_integration") => lambda_arn # None

\* C6: a fatal error is the last call of its run, and a role creation that failed
\* with the re-probe finding no role is fatal.
C6_FatalAborts ==
  /\ \A i \in DOMAIN calls :
       (calls[i].res = "error" /\ calls[i].op \notin {"create_role", "attach_role_policy"})
         => (i = Len(calls) /\ pc = "failed")
  /\ \A i \in DOMAIN calls :
       (i > 1 /\ calls[i] = [op |-> "get_role", res |-> "notfound"]
              /\ calls[i - 1].res = "error")
         => (i = Len(calls) /\ pc = "failed")

PolicyOf(fs) == UNION {f.Policy : f \in fs}

\* C7: a permission grant that meets the grant already made ends in a conflict that
\* is absorbed: it is the run's last call, the run goes on to report the endpoint,
\* and the grants on the function are those the run started with, one for the
\* statement id.
C7_ConflictAbsorbed ==
  \A i \in DOMAIN calls :
    calls[i] = [op |-> "add_permission", res |-> "conflict"] =>
      /\ i = Len(calls)
      /\ pc \in {"report", "done", "halted"}
      /\ pc = "halted" => at = "report"
      /\ pc = "done" => endpoint # None
      /\ PolicyOf(FunctionOf(region, FunctionName(suffix))) = PolicyOf(start.env.function)
      /\ Cardinality({st \in PolicyOf(FunctionOf(region, FunctionName(suffix))) :
                        st.StatementId = <<"apigateway-invoke-">> \o api_id}) = 1

C7_Witness ==
  /\ pc = "done" /\ MadeWith("add_permission", "conflict")
  /\ SameEnvAsPrev
  /\ prev.granted

NoErrors == \A i \in DOMAIN calls : calls[i].res # "error"

\* C8: a complete run without provider failures on an empty environment leaves the
\* role with both policies, the function with the packaged code and that role, the
\* entry point, an integration of the function, the catch-all route of that
\* integration, the $default auto-deploy stage and the grant, and the endpoint is
\* made of the entry point's identifier and the region.
C8_FreshOutcome ==
  (pc = "done" /\ start.env = EmptyEnv /\ NoErrors) =>
    /\ Shape(EnvState(suffix, region)) =
         DesiredEnv(suffix, region, zip_content, start.nextApi, start.nextInteg)
    /\ api_id = <<"api", start.nextApi>>
    /\ endpoint = <<"https://">> \o api_id \o <<".execute-api.", region, ".amazonaws.com">>
    /\ \A op \in CreateOps : MadeWith(op, "ok")
    /\ MadeWith("add_permission", "ok")

C8_Witness == pc = "done" /\ start.env = EmptyEnv /\ NoErrors /\ suffix = <<"-dev">>

\* the deployable probe, the first get_function of the run, found the function
ProbeFound ==
  \E i \in DOMAIN calls :
    /\ calls[i] = [op |-> "get_function", res |-> "ok"]
    /\ \A j \in 1..(i - 1) : calls[j].op # "get_function"
AfterDeployable == {"get_apis", "create_api", "get_integrations", "get_function_arn",
                    "create_integration", "get_routes", "create_route", "get_stages",
                    "create_stage", "get_caller_identity", "add_permission", "report",
                    "done"}
PastDeployable == pc \in AfterDeployable \/ (pc \in {"halted", "failed"} /\ at \in AfterDeployable)
Identity(fs) == {[FunctionArn |-> f.FunctionArn, Role |-> f.Role] : f \in fs}

\* C9: a run whose probe finds the function makes no create_function call, calls
\* update code and then update configuration once each whatever the code and the
\* variables were, and leaves the function's identifier and role as they were.
C9_Overwrite ==
  ProbeFound =>
    /\ ~Made("create_function")
    /\ Count("update_function_code") <= 1
    /\ Count("update_function_configuration") <= 1
    /\ Made("update_function_configuration") => MadeWith("update_function_code", "ok")
    /\ Identity(FunctionOf(region, FunctionName(suffix))) = Identity(start.env.function)
    /\ PastDeployable =>
         /\ MadeWith("update_function_code", "ok")
         /\ MadeWith("update_function_configuration", "ok")
         /\ \A f \in FunctionOf(region, FunctionName(suffix)) :
              /\ f.Code = zip_content
              /\ f.Environment.DYNAMODB_TABLE_SESSIONS = <<"quest-sessions">> \o suffix
              /\ f.Environment.DYNAMODB_TABLE_TEAMS = <<"quest-teams">> \o suffix

C9_Witness ==
  /\ pc = "done" /\ ProbeFound
  /\ \E f \in start.env.function : f.Code = zip_content
  /\ MadeWith("update_function_code", "ok")
  /\ MadeWith("update_function_configuration", "ok")

PartialGateway ==
  /\ InRun
  /\ start.env.apis # {} /\ start.env.integrations # {}
  /\ start.env.routes = {} /\ start.env.stages = {}

\* C10: a run that starts with the entry point and its integration present and no
\* route and no stage makes no create_api and no create_integration call, leaves
\* both as they were, and creates only the route, targeting that integration, and
\* the stage.
C10_PartialGateway ==
  PartialGateway =>
    /\ ~Made("create_api") /\ ~Made("create_integration")
    /\ EnvState(suffix, region).apis = start.env.apis
    /\ EnvState(suffix, region).integrations = start.env.integrations
    /\ pc = "done" =>
         /\ {op \in CreateOps : MadeWith(op, "ok")} = {"create_route", "create_stage"}
         /\ Cardinality(EnvState(suffix, region).routes) = 1
         /\ Cardinality(EnvState(suffix, region).stages) = 1
         /\ \A x \in EnvState(suffix, region).routes :
              \E i \in start.env.integrations :
                x.Target = <<"integrations/">> \o i.IntegrationId

C10_Witness == pc = "done" /\ PartialGateway /\ MadeWith("create_route", "ok")

\* ---------------------------------------------------------------- table runs
TablesOfSuffix(s) == {<<"quest-sessions">> \o s, <<"quest-teams">> \o s}
TableMade(op, name, res) ==
  \E i \in DOMAIN tcalls : tcalls[i] = [op |-> op, table |-> name, res |-> res]

\* C11: table provisioning is independent of the main reconciliation.  A table run
\* calls the provider only for the two tables of its suffix and the registry holds
\* no other table; the backend run reads and writes no table; and wherever the table
\* runs fall (before, during, after the backend run, or never), a complete backend
\* run ends with the role, function, gateway state, identifiers and endpoint that
\* its suffix, region and packaged code alone determine.
C11_Independent ==
  /\ \A i \in DOMAIN tcalls : tcalls[i].table \in TablesOfSuffix(tsuffix)
  /\ \A t \in tables : \E s \in Suffixes : t.TableName \in TablesOfSuffix(s)
  /\ \A x \in reads \cup writes :
       /\ x.kind \in {"role", "function", "api", "integration", "route", "stage"}
       /\ \A s \in Suffixes : x.name \notin TablesOfSuffix(s)
  /\ pc = "done" =>
       /\ Shape(EnvState(suffix, region)) = DesiredEnv(suffix, region, zip_content, 1, 1)
       /\ role_arn = <<"arn:aws:iam::", Account, ":role/", "QuestLambdaRole">> \o suffix
       /\ lambda_arn = <<"arn:aws:lambda:", region, Account, ":function:", "quest-api">>
                         \o suffix
       /\ api_id = <<"api", 1>> /\ integration_id = <<"integ", 1>>
       /\ endpoint = <<"https://", "api", 1, ".execute-api.", region, ".amazonaws.com">>

\* a backend run completed although steps of a table run of the same suffix, which
\* has created both tables, fell inside it
C11_Witness ==
  /\ pc = "done" /\ overlap /\ tpc = "done" /\ tsuffix = suffix
  /\ \A n \in TablesOfSuffix(suffix) : TableMade("create_table", n, "ok")
C11_WitnessBefore ==
  /\ pc = "done" /\ ~overlap /\ tpc = "done" /\ tsuffix = suffix /\ truns = 1
  /\ tables # {}
C11_WitnessNever == pc = "done" /\ truns = 0 /\ tables = {}

\* C12: fatal errors terminate a command with failure.  In both commands a provider
\* error that is neither a probe's NotFound nor the expected conflict is the last
\* provider call of the run, which ends in the failed state; in particular a table
\* run whose create_table of the first table failed does not end in the success
\* state.
C12_FatalTerminates ==
  /\ \A i \in DOMAIN tcalls :
       tcalls[i].res = "error" => i = Len(tcalls) /\ tpc = "failed"
  /\ TableMade("create_table", sessions_table(tsuffix), "error") => tpc # "done"
  /\ \A i \in DOMAIN calls :
       calls[i].res = "error" => i = Len(calls) /\ pc = "failed"

\* ---------------------------------------------------------------- the role step
Attachments(name) == UNION {r.AttachedPolicies : r \in RoleOf(name)}
BothPolicies == {"AWSLambdaBasicExecutionRole", "AmazonDynamoDBFullAccess"}

\* C13: in every run that created the role and to which the role step returned the
\* role's identifier, create_role was followed by two successful attachments and
\* the settle delay, all before any call on the function, and the role has both
\* policies.
C13_CreatedThenSettled ==
  (MadeWith("create_role", "ok") /\ role_arn # None) =>
    /\ \E i, j, k, l \in DOMAIN calls :
         /\ i < j /\ j < k /\ k < l
         /\ calls[i] = [op |-> "create_role", res |-> "ok"]
         /\ calls[j] = [op |-> "attach_role_policy", res |-> "ok"]
         /\ calls[k] = [op |-> "attach_role_policy", res |-> "ok"]
         /\ calls[l] = [op |-> "sleep", res |-> "ok"]
         /\ \A m \in DOMAIN calls : calls[m].op \in DeployableOps => l < m
    /\ Attachments(RoleName(suffix)) = BothPolicies

\* C14: after any run that completes, whatever runs came before it, the role of its
\* suffix exists with the trust policy and with both policies attached.
C14_RoleConverges ==
  pc = "done" =>
    /\ RoleOf(RoleName(suffix)) # {}
    /\ \A r \in RoleOf(RoleName(suffix)) :
         /\ r.AssumeRolePolicyDocument = TrustPolicy
         /\ r.AttachedPolicies = BothPolicies

\* the role probe of main, the first call of the run, found the role
RoleProbeFound == calls # <<>> /\ calls[1] = [op |-> "get_role", res |-> "ok"]

\* C15: when the role probe finds the role, the run makes no create_role call, no
\* attach_role_policy call and no settle delay, the identifier it holds from then
\* on is the found role's, and the role is as it was when the run started.
C15_ExistingRoleUntouched ==
  RoleProbeFound =>
    /\ ~Made("create_role") /\ ~Made("attach_role_policy") /\ ~Made("sleep")
    /\ Count("get_role") = 1
    /\ role_arn = <<"arn:aws:iam::", Account, ":role/", "QuestLambdaRole">> \o suffix
    /\ RoleOf(RoleName(suffix)) = start.env.role
    /\ start.env.role # {}

\* a run completed on a role found without its policies, which it left so
C15_Witness ==
  /\ RoleProbeFound /\ pc = "done"
  /\ \E r \in start.env.role : r.AttachedPolicies # BothPolicies

\* ---------------------------------------------------------------- conflicts
\* the conflict tcalls[i] was taken as "the table already exists": the next thing
\* the run does is the enable-TTL call on that table
TakenAsExisting(i) ==
  IF i = Len(tcalls) THEN tpc = "verify_time_to_live"
  ELSE /\ tcalls[i + 1].op = "update_time_to_live"
       /\ tcalls[i + 1].table = tcalls[i].table
       /\ tcalls[i + 1].res \in {"ok", "error"}

ExistingIntegrations(s, r) ==
  {[ApiId |-> MkApiId(1), IntegrationId |-> MkIntegrationId(1),
    IntegrationType |-> "AWS_PROXY",
    IntegrationUri |-> FunctionArnOf(r, FunctionName(s)),
    PayloadFormatVersion |-> "2.0"]}
  \cup {[ApiId |-> MkApiId(1), IntegrationId |-> MkIntegrationId(2),
         IntegrationType |-> "AWS_PROXY",
         IntegrationUri |-> FunctionArnOf(r, FunctionName(o)),
         PayloadFormatVersion |-> "2.0"] : o \in Suffixes \ {s}}
  \cup {[ApiId |-> MkApiId(1), IntegrationId |-> MkIntegrationId(3),
         IntegrationType |-> "HTTP_PROXY",
         IntegrationUri |-> <<"https://", "backend.example.com">>,
         PayloadFormatVersion |-> "1.0"]}

\* the role, function and entry point of one suffix exist, the functions of the
\* other suffixes too; the entry point has no route or stage yet and holds any
\* set of the integrations above
IntegrationInit ==
  /\ region \in Regions
  /\ \E s \in Suffixes :
       /\ roles = DesiredEnv(s, region, "zipA", 1, 1).role
       /\ functions = UNION {DesiredEnv(o, region, "zipA", 1, 1).function : o \in Suffixes}
       /\ apis = DesiredEnv(s, region, "zipA", 1, 1).apis
       /\ integrations \in SUBSET ExistingIntegrations(s, region)
  /\ routes = {} /\ stages = {}
  /\ nextApi = 2 /\ nextInteg = 4 /\ nextRoute = 1
  /\ pc = "idle" /\ at = "idle"
  /\ suffix = None /\ zip_content = "zipA"
  /\ role_arn = None /\ api_id = None /\ integration_id = None
  /\ lambda_arn = None /\ endpoint = None /\ role = None
  /\ calls = <<>> /\ reads = {} /\ writes = {}
  /\ start = [env |-> EmptyEnv, nextApi |-> 2, nextInteg |-> 4]
  /\ prev = NoRun
  /\ runs = 0 /\ faults = 0
  /\ tables = {} /\ tpc = "idle" /\ tsuffix = None /\ idx = 1 /\ tcalls = <<>>
  /\ truns = 0 /\ tfaults = 0 /\ overlap = FALSE

\* the run is for the suffix whose entry point exists
StartOnEntryPoint ==
  /\ runs = 0
  /\ Start
  /\ FindApi(ApisOf(region), ApiName(suffix')) # None

IntegrationNext ==
  \/ StartOnEntryPoint \/ GetRole \/ GetFunction \/ UpdateFunctionCode
  \/ UpdateFunctionConfiguration \/ GetApis \/ GetIntegrations \/ GetFunctionArn
  \/ CreateIntegration \/ GetRoutes \/ CreateRoute \/ GetStages \/ CreateStage
  \/ GetCallerIdentity \/ AddPermission \/ Report

IntegrationSpec == IntegrationInit /\ [][IntegrationNext]_vars

IntegrationOf(id) == {i \in IntegrationsOf(api_id) : i.IntegrationId = id}
PastIntegration ==
  /\ pc \in {"get_routes", "create_route", "get_stages", "create_stage",
             "get_caller_identity", "add_permission", "report", "done"}
  /\ integration_id # None /\ lambda_arn # None

\* C17: once the integration step is over, the integration the run holds is on its
\* entry point and its target is this run's function; the run has reused an
\* existing integration only if that one's target is this run's function, and has
\* created one otherwise; and the route the run creates targets an integration
\* whose target is this run's function.
C17_IntegrationMatches ==
  PastIntegration =>
    /\ IntegrationOf(integration_id) # {}
    /\ \A i \in IntegrationOf(integration_id) : i.IntegrationUri = lambda_arn
    /\ Made("create_integration") <=>
         ~(\E i \in start.env.integrations : i.IntegrationUri = lambda_arn)
    /\ \A x \in RoutesOf(api_id) :
         \E i \in IntegrationsOf(api_id) :
           /\ x.Target = <<"integrations/">> \o i.IntegrationId
           /\ i.IntegrationUri = lambda_arn

\* ---------------------------------------------------------------- time to live
\* create_table(name) has returned to main in the current table run
Returned(name) ==
  \/ tpc = "done"
  \/ tpc \notin {"idle", "done"} /\ idx = 2 /\ name = <<"quest-sessions">> \o tsuffix
\* the enable-TTL call was issued on the table after call i of the run
TTLAfter(i, name) ==
  \E j \in DOMAIN tcalls :
    /\ i < j /\ tcalls[j].op = "update_time_to_live" /\ tcalls[j].table = name
TTLIssued(name) ==
  \E j \in DOMAIN tcalls :
    tcalls[j].op = "update_time_to_live" /\ tcalls[j].table = name

\* C18: for each of the two tables of a table run, once create_table has returned:
\* if the table was created and the wait for it succeeded, the enable-TTL call was
\* issued after the wait; if the create reported the table as existing, the
\* enable-TTL call was issued after it; if the create failed otherwise, no
\* enable-TTL call was issued; a successful enable-TTL call leaves the table with
\* TTL on attribute expiresAt; and a run that has ended has called create_table
\* for both tables, whatever happened to the first.
C18_TTLOnBothBranches ==
  /\ \A n \in TablesOfSuffix(tsuffix) : \A i \in DOMAIN tcalls :
       Returned(n) =>
         /\ tcalls[i] = [op |-> "wait_until_exists", table |-> n, res |-> "ok"]
              => /\ i > 1
                 /\ tcalls[i - 1] = [op |-> "create_table", table |-> n, res |-> "ok"]
                 /\ TTLAfter(i, n)
         /\ tcalls[i] = [op |-> "create_table", table |-> n, res |-> "conflict"]
              => TTLAfter(i, n)
         /\ tcalls[i] = [op |-> "create_table", table |-> n, res |-> "error"]
              => ~TTLIssued(n)
         /\ tcalls[i] = [op |-> "update_time_to_live", table |-> n, res |-> "ok"]
              => \A t \in TableOf(n) :
                   t.TimeToLive = [Enabled |-> TRUE, AttributeName |-> "expiresAt"]
  /\ tpc = "done" =>
       \A n \in TablesOfSuffix(tsuffix) :
         \E i \in DOMAIN tcalls : tcalls[i].op = "create_table" /\ tcalls[i].table = n

\* the create of the first table failed, the second table was created and its TTL
\* enabled
C18_Witness ==
  /\ tpc = "done"
  /\ TableMade("create_table", <<"quest-sessions">> \o tsuffix, "error")
  /\ TableMade("create_table", <<"quest-teams">> \o tsuffix, "ok")
  /\ TableMade("update_time_to_live", <<"quest-teams">> \o tsuffix, "ok")

====
